---- MODULE Spec2Model ----
(***************************************************************************)
(* A model of the fitness-log API of src/app.py (Flask handlers over a     *)
(* relational store) together with the maintenance script                  *)
(* src/clean_smoke_data.py.                                                *)
(*                                                                         *)
(* The store is the two tables `users` and `fitness_items`.  A handler     *)
(* that reads the store and commits in a later statement while other       *)
(* requests may commit in between (register: lookup, then commit; create:  *)
(* resolve the current user, then commit) is two steps of a worker; the    *)
(* other handlers are one step.  `response` is the HTTP response a handler *)
(* has just returned, with the request it answers; the client takes it     *)
(* with Deliver.                                                           *)
(***************************************************************************)
EXTENDS Integers, Sequences, FiniteSets

VARIABLES
    backend,    \* the relational store app.config selects: "sqlite" | "postgres"
    users,      \* rows of table users
    user_seq,   \* postgres: last value of the sequence behind users.id
    nreg,       \* history: number of User rows ever inserted
    items,      \* rows of table fitness_items
    item_seq,   \* postgres: last value of the sequence behind fitness_items.id
    tokens,     \* access tokens issued by /login
    pending,    \* per worker: the request it is in the middle of
    response,   \* the response just returned (with its request), or NoResp
    answers,    \* observer of RaceSpec: what each worker's /register answered
    created     \* observer of RoundTripSpec: the last create answered 201 whose
                \* item has not been updated or deleted since, or NoRow

vars == <<backend, users, user_seq, nreg, items, item_seq, tokens, pending,
          response, answers, created>>

obs == <<answers, created>>

(***************************** bounds **************************************)
MaxUsers == 2
MaxItemId == 2

(***************************** values **************************************)
TEST_REG == "SMOKE_RN_001"
None == "<None>"        \* Python None / JSON null; not a member of the strings below
Absent == "<absent>"    \* a key that is not in the JSON body
NoRow == [id |-> 0]     \* a query that finds no row (Python None)
NoToken == [sub |-> "<no Authorization header>"]
Idle == [op |-> "idle"]
NoResp == [op |-> "none"]

Workers == {"w1", "w2"}
Backends == {"sqlite", "postgres"}
Names == {"A"}
RegNumbers == {TEST_REG, "R2"}
Passwords == {"p"}
WrongPasswords == {"q"}
Titles == {"t1"}
Descriptions == {"", "d"}
ItemIds == 1..MaxItemId

RegisterBodies ==
    [name : {Absent} \cup Names,
     reg_number : {""} \cup RegNumbers,
     password : {Absent} \cup Passwords]
LoginBodies ==
    [reg_number : {Absent} \cup RegNumbers,
     password : {""} \cup Passwords \cup WrongPasswords]
FitnessBodies ==
    [title : {Absent, ""} \cup Titles,
     description : {Absent, None} \cup Descriptions]

(***************************** helpers *************************************)
\* dict.get(key): None for a missing key, and for a key whose value is null
Get(data, key) == IF data[key] = Absent THEN None ELSE data[key]

\* Python truthiness of an optional string: `not v`
Falsy(v) == v = None \/ v = ""

Max(S) == IF S = {} THEN 0 ELSE CHOOSE m \in S : \A x \in S : x <= m

\* str(n) as its decimal digits, and int(s) back
RECURSIVE Str(_)
Str(n) == IF n < 10 THEN <<n>> ELSE Str(n \div 10) \o <<n % 10>>

RECURSIVE ParseInt(_)
ParseInt(s) ==
    IF Len(s) = 1 THEN s[1]
    ELSE 10 * ParseInt(SubSeq(s, 1, Len(s) - 1)) + s[Len(s)]

\* The salted one-way hash, as what check_password_hash can tell of it: which
\* password it was made from.
generate_password_hash(password) == [method |-> "salted-hash", of |-> password]

\* Variant: a check that accepts any password.
check_password_hash_any(pwhash, password) == TRUE

check_password_hash(pwhash, password) == pwhash.of = password

UserToDict(u) == [id |-> u.id, name |-> u.name, reg_number |-> u.reg_number]

ItemToDict(i) ==
    [id |-> i.id, title |-> i.title, description |-> i.description,
     user_id |-> i.user_id]

Resp(op, tok, id, data, status, json) ==
    [op |-> op, tok |-> tok, id |-> id, data |-> data, status |-> status,
     json |-> json]

Msg(m) == [msg |-> m]

(***************************** the store ***********************************)
\* User.query.filter_by(reg_number=...).first()
UserByReg(reg) ==
    IF \E u \in users : u.reg_number = reg
    THEN CHOOSE u \in users : u.reg_number = reg
    ELSE NoRow

\* User.query.get(user_id)
UserById(id) ==
    IF \E u \in users : u.id = id
    THEN CHOOSE u \in users : u.id = id
    ELSE NoRow

\* The id the store gives a new users row: sqlite's INTEGER PRIMARY KEY is one
\* more than the largest id in the table, postgres draws from a sequence.
NextUserId ==
    IF backend = "sqlite" THEN Max({u.id : u \in users}) + 1 ELSE user_seq + 1

NextItemId ==
    IF backend = "sqlite" THEN Max({i.id : i \in items}) + 1 ELSE item_seq + 1

\* Variant: the lookup by id alone, without the owner.
ItemOfAnyUser(item_id, user) ==
    IF \E i \in items : i.id = item_id
    THEN CHOOSE i \in items : i.id = item_id
    ELSE NoRow

\* FitnessItem.query.filter_by(id=item_id, user_id=user.id).first()
ItemOf(item_id, user) ==
    IF \E i \in items : i.id = item_id /\ i.user_id = user.id
    THEN CHOOSE i \in items : i.id = item_id /\ i.user_id = user.id
    ELSE NoRow

\* FitnessItem.query.filter_by(user_id=user.id).all(), in id order
RECURSIVE SortById(_)
SortById(S) ==
    IF S = {} THEN <<>>
    ELSE LET i == CHOOSE x \in S : \A y \in S : x.id <= y.id
         IN <<i>> \o SortById(S \ {i})

\* Variant: the listing without the owner filter.
ItemsOfAnyUser(user) == SortById(items)

ItemsOf(user) == SortById({i \in items : i.user_id = user.id})

(***************************** tokens **************************************)
\* create_access_token(identity=str(user.id)); holder is history: the User row
\* that logged in.  Every issued token is taken within its lifetime
\* (JWT_ACCESS_TOKEN_EXPIRES, 7 days): a request with an expired token is, like
\* one with no token, answered 401 by jwt_required and is the NoToken request.
create_access_token(user) == [sub |-> Str(user.id), holder |-> user.serial]

get_jwt_identity(tok) == tok.sub

get_current_user(tok) == UserById(ParseInt(get_jwt_identity(tok)))

TokenInputs == {NoToken} \cup tokens

(***************************** Init ****************************************)
Init ==
    /\ backend \in Backends
    /\ users = {}
    /\ user_seq = 0
    /\ nreg = 0
    /\ items = {}
    /\ item_seq = 0
    /\ tokens = {}
    /\ pending = [w \in Workers |-> Idle]
    /\ response = NoResp
    /\ answers = [w \in Workers |-> NoResp]
    /\ created = NoRow

(***************************** /register ***********************************)
\* register(), lines 73-86: validation, the lookup by reg_number, and the new
\* User added to the session.
RegisterStart(w, data) ==
    /\ response = NoResp
    /\ pending[w] = Idle
    /\ LET name == Get(data, "name")
           reg_number == Get(data, "reg_number")
           password == Get(data, "password")
       IN IF Falsy(name) \/ Falsy(reg_number) \/ Falsy(password)
          THEN /\ response' = Resp("register", NoToken, 0, data, 400,
                                   Msg("name, reg_number and password are required"))
               /\ UNCHANGED pending
          ELSE IF UserByReg(reg_number) # NoRow
          THEN /\ response' = Resp("register", NoToken, 0, data, 409,
                                   Msg("reg_number already exists"))
               /\ UNCHANGED pending
          ELSE /\ pending' = [pending EXCEPT ![w] =
                     [op |-> "register", data |-> data,
                      password_hash |-> generate_password_hash(password)]]
               /\ UNCHANGED response
    /\ UNCHANGED <<backend, users, user_seq, nreg, items, item_seq, tokens>>

\* Variant: a users table without the unique constraint.
NoIntegrityError(reg_number) == FALSE

\* Variant: a commit that fails without its row being rolled back.
WithoutRollback(user) == users \cup {user}

\* The unique constraint on users.reg_number, checked by the store at commit.
IntegrityError(reg_number) == UserByReg(reg_number) # NoRow

\* db.session.rollback(): the table without the row the session had added.
AfterRollback(user) == users

\* register(), lines 87-93: the commit, where the unique constraint on
\* reg_number decides, and the rollback on IntegrityError.
RegisterCommit(w) ==
    /\ response = NoResp
    /\ pending[w].op = "register"
    /\ nreg < MaxUsers
    /\ user_seq < MaxUsers
    /\ LET p == pending[w]
           user == [id |-> NextUserId, name |-> Get(p.data, "name"),
                    reg_number |-> Get(p.data, "reg_number"),
                    password_hash |-> p.password_hash, serial |-> nreg + 1]
       IN IF IntegrityError(user.reg_number)
          THEN /\ response' = Resp("register", NoToken, 0, p.data, 409,
                                   Msg("reg_number already exists"))
               /\ users' = AfterRollback(user)
               /\ UNCHANGED nreg
          ELSE /\ users' = users \cup {user}
               /\ nreg' = nreg + 1
               /\ response' = Resp("register", NoToken, 0, p.data, 201,
                                   [msg |-> "user created", user |-> UserToDict(user)])
    /\ user_seq' = IF backend = "postgres" THEN user_seq + 1 ELSE user_seq
    /\ pending' = [pending EXCEPT ![w] = Idle]
    /\ UNCHANGED <<backend, items, item_seq, tokens>>

(***************************** /login **************************************)
login(data) ==
    /\ response = NoResp
    /\ LET reg_number == Get(data, "reg_number")
           password == Get(data, "password")
           user == UserByReg(reg_number)
       IN IF Falsy(reg_number) \/ Falsy(password)
          THEN /\ response' = Resp("login", NoToken, 0, data, 400,
                                   Msg("reg_number and password are required"))
               /\ UNCHANGED tokens
          ELSE IF user = NoRow \/ ~check_password_hash(user.password_hash, password)
          THEN /\ response' = Resp("login", NoToken, 0, data, 401,
                                   Msg("invalid credentials"))
               /\ UNCHANGED tokens
          ELSE /\ tokens' = tokens \cup {create_access_token(user)}
               /\ response' = Resp("login", NoToken, 0, data, 200,
                                   [access_token |-> create_access_token(user),
                                    user |-> UserToDict(user)])
    /\ UNCHANGED <<backend, users, user_seq, nreg, items, item_seq, pending>>

(***************************** maintenance *********************************)
\* clean_smoke_data.run(): the smoke-test user and its items, in one commit.
clean ==
    /\ response = NoResp
    /\ LET user == UserByReg(TEST_REG)
       IN /\ user # NoRow
          /\ items' = {i \in items : i.user_id # user.id}
          /\ users' = users \ {user}
    /\ UNCHANGED <<backend, user_seq, nreg, item_seq, tokens, pending, response>>

\* The client takes the response.
Deliver ==
    /\ response # NoResp
    /\ response' = NoResp
    /\ UNCHANGED <<backend, users, user_seq, nreg, items, item_seq, tokens, pending>>

(***************************** /fitness ************************************)
\* @jwt_required(): a request without a verifiable token is answered 401
\* before the handler runs.
jwt_required(tok) == tok # NoToken

Unauthorized(op, tok, id, data) ==
    Resp(op, tok, id, data, 401, Msg("Missing Authorization Header"))

InvalidToken(op, tok, id, data) ==
    Resp(op, tok, id, data, 401, Msg("invalid or expired token"))

NotFound(op, tok, id, data) == Resp(op, tok, id, data, 404, Msg("not found"))

\* create_fitness_item(), lines 128-140: validation, the current user, and the
\* new FitnessItem added to the session.
CreateStart(w, tok, data) ==
    /\ response = NoResp
    /\ pending[w] = Idle
    /\ \A v \in Workers : pending[v].op # "create"
    /\ IF ~jwt_required(tok)
       THEN /\ response' = Unauthorized("create", tok, 0, data)
            /\ UNCHANGED pending
       ELSE LET title == Get(data, "title")
                user == get_current_user(tok)
            IN IF Falsy(title)
               THEN /\ response' = Resp("create", tok, 0, data, 400,
                                        Msg("title is required"))
                    /\ UNCHANGED pending
               ELSE IF user = NoRow
               THEN /\ response' = InvalidToken("create", tok, 0, data)
                    /\ UNCHANGED pending
               ELSE /\ pending' = [pending EXCEPT ![w] =
                          [op |-> "create", tok |-> tok, data |-> data,
                           user_id |-> user.id]]
                    /\ UNCHANGED response
    /\ UNCHANGED <<backend, users, user_seq, nreg, items, item_seq, tokens>>

\* Whether the store enforces fitness_items.user_id -> users.id at commit:
\* postgres does, sqlite (foreign keys off unless the connection turns them on)
\* does not.
ForeignKeyHolds(user_id) == backend = "sqlite" \/ UserById(user_id) # NoRow

\* create_fitness_item(), lines 141-143: the commit.  A foreign-key violation
\* is not caught: the request ends in the framework's 500.
CreateCommit(w) ==
    /\ response = NoResp
    /\ pending[w].op = "create"
    /\ NextItemId <= MaxItemId
    /\ LET p == pending[w]
           item == [id |-> NextItemId, title |-> Get(p.data, "title"),
                    description |-> Get(p.data, "description"),
                    user_id |-> p.user_id]
       IN IF ForeignKeyHolds(p.user_id)
          THEN /\ items' = items \cup {item}
               /\ response' = Resp("create", p.tok, 0, p.data, 201,
                                   [msg |-> "created", item |-> ItemToDict(item)])
          ELSE /\ response' = Resp("create", p.tok, 0, p.data, 500,
                                   Msg("Internal Server Error"))
               /\ UNCHANGED items
    /\ item_seq' = IF backend = "postgres" THEN item_seq + 1 ELSE item_seq
    /\ pending' = [pending EXCEPT ![w] = Idle]
    /\ UNCHANGED <<backend, users, user_seq, nreg, tokens>>

list_fitness_items(tok) ==
    /\ response = NoResp
    /\ LET user == get_current_user(tok)
       IN response' =
            IF ~jwt_required(tok) THEN Unauthorized("list", tok, 0, NoRow)
            ELSE IF user = NoRow THEN InvalidToken("list", tok, 0, NoRow)
            ELSE Resp("list", tok, 0, NoRow, 200,
                      [items |-> [k \in DOMAIN ItemsOf(user) |->
                                     ItemToDict(ItemsOf(user)[k])]])
    /\ UNCHANGED <<backend, users, user_seq, nreg, items, item_seq, tokens, pending>>

get_fitness_item(tok, item_id) ==
    /\ response = NoResp
    /\ LET user == get_current_user(tok)
       IN response' =
            IF ~jwt_required(tok) THEN Unauthorized("get", tok, item_id, NoRow)
            ELSE IF user = NoRow THEN InvalidToken("get", tok, item_id, NoRow)
            ELSE IF ItemOf(item_id, user) = NoRow
            THEN NotFound("get", tok, item_id, NoRow)
            ELSE Resp("get", tok, item_id, NoRow, 200,
                      [item |-> ItemToDict(ItemOf(item_id, user))])
    /\ UNCHANGED <<backend, users, user_seq, nreg, items, item_seq, tokens, pending>>

\* Variant: the description replaced only when truthy, as the title is.
UpdatedIfTruthy(item, data) ==
    LET title == Get(data, "title")
        description == Get(data, "description")
    IN [item EXCEPT
          !.title = IF ~Falsy(title) THEN title ELSE @,
          !.description = IF ~Falsy(description) THEN description ELSE @]

\* update_fitness_item(), lines 182-185: what the body changes of the item.
Updated(item, data) ==
    LET title == Get(data, "title")
        description == Get(data, "description")
    IN [item EXCEPT
          !.title = IF ~Falsy(title) THEN title ELSE @,
          !.description = IF description # None THEN description ELSE @]

update_fitness_item(tok, item_id, data) ==
    /\ response = NoResp
    /\ LET user == get_current_user(tok)
       IN IF ~jwt_required(tok)
          THEN /\ response' = Unauthorized("update", tok, item_id, data)
               /\ UNCHANGED items
          ELSE IF user = NoRow
          THEN /\ response' = InvalidToken("update", tok, item_id, data)
               /\ UNCHANGED items
          ELSE IF ItemOf(item_id, user) = NoRow
          THEN /\ response' = NotFound("update", tok, item_id, data)
               /\ UNCHANGED items
          ELSE LET item == ItemOf(item_id, user)
               IN /\ items' = (items \ {item}) \cup {Updated(item, data)}
                  /\ response' = Resp("update", tok, item_id, data, 200,
                                      [msg |-> "updated",
                                       item |-> ItemToDict(Updated(item, data))])
    /\ UNCHANGED <<backend, users, user_seq, nreg, item_seq, tokens, pending>>

delete_fitness_item(tok, item_id) ==
    /\ response = NoResp
    /\ LET user == get_current_user(tok)
       IN IF ~jwt_required(tok)
          THEN /\ response' = Unauthorized("delete", tok, item_id, NoRow)
               /\ UNCHANGED items
          ELSE IF user = NoRow
          THEN /\ response' = InvalidToken("delete", tok, item_id, NoRow)
               /\ UNCHANGED items
          ELSE IF ItemOf(item_id, user) = NoRow
          THEN /\ response' = NotFound("delete", tok, item_id, NoRow)
               /\ UNCHANGED items
          ELSE /\ items' = items \ {ItemOf(item_id, user)}
               /\ response' = Resp("delete", tok, item_id, NoRow, 200, Msg("deleted"))
    /\ UNCHANGED <<backend, users, user_seq, nreg, item_seq, tokens, pending>>

(***************************** specification *******************************)
Next ==
    \/ \E w \in Workers, data \in RegisterBodies :
          RegisterStart(w, data) /\ UNCHANGED obs
    \/ \E w \in Workers : RegisterCommit(w) /\ UNCHANGED obs
    \/ \E data \in LoginBodies : login(data) /\ UNCHANGED obs
    \/ \E w \in Workers, tok \in TokenInputs, data \in FitnessBodies :
          CreateStart(w, tok, data) /\ UNCHANGED obs
    \/ \E w \in Workers : CreateCommit(w) /\ UNCHANGED obs
    \/ \E tok \in TokenInputs : list_fitness_items(tok) /\ UNCHANGED obs
    \/ \E tok \in TokenInputs, item_id \in ItemIds :
          get_fitness_item(tok, item_id) /\ UNCHANGED obs
    \/ \E tok \in TokenInputs, item_id \in ItemIds, data \in FitnessBodies :
          update_fitness_item(tok, item_id, data) /\ UNCHANGED obs
    \/ \E tok \in TokenInputs, item_id \in ItemIds :
          delete_fitness_item(tok, item_id) /\ UNCHANGED obs
    \/ clean /\ UNCHANGED obs
    \/ Deliver /\ UNCHANGED obs

Spec == Init /\ [][Next]_vars

(***************************** the register race ***************************)
\* Two workers, each answering one /register, in every interleaving of their
\* lookups and commits; answers records what each was answered.
RaceRegisterStart(w, data) ==
    /\ answers[w] = NoResp
    /\ RegisterStart(w, data)
    /\ answers' = [answers EXCEPT ![w] = response']
    /\ UNCHANGED created

RaceRegisterCommit(w) ==
    /\ RegisterCommit(w)
    /\ answers' = [answers EXCEPT ![w] = response']
    /\ UNCHANGED created

RaceNext ==
    \/ \E w \in Workers, data \in RegisterBodies : RaceRegisterStart(w, data)
    \/ \E w \in Workers : RaceRegisterCommit(w)
    \/ Deliver /\ UNCHANGED obs

RaceSpec == Init /\ [][RaceNext]_vars

(***************************** create, then get ****************************)
\* Every operation, with created following the last item a create returned
\* until an update or a delete (the maintenance deletion included) touches it.
\* One worker takes the two-step requests here: the round trip is about one
\* create, and the maintenance deletion still runs between its two steps.
Touched(item_id) ==
    /\ created # NoRow
    /\ response'.op \in {"update", "delete"}
    /\ response'.status = 200
    /\ item_id = created.item.id

RoundTripNext ==
    \/ \E w \in {"w1"}, data \in RegisterBodies :
          RegisterStart(w, data) /\ UNCHANGED obs
    \/ \E w \in {"w1"} : RegisterCommit(w) /\ UNCHANGED obs
    \/ \E data \in LoginBodies : login(data) /\ UNCHANGED obs
    \/ \E w \in {"w1"}, tok \in TokenInputs, data \in FitnessBodies :
          CreateStart(w, tok, data) /\ UNCHANGED obs
    \/ \E w \in {"w1"} :
          /\ CreateCommit(w)
          /\ created' = IF response'.status = 201
                        THEN [tok |-> response'.tok, data |-> response'.data,
                              item |-> response'.json.item]
                        ELSE created
          /\ UNCHANGED answers
    \/ \E tok \in TokenInputs : list_fitness_items(tok) /\ UNCHANGED obs
    \/ \E tok \in TokenInputs, item_id \in ItemIds :
          get_fitness_item(tok, item_id) /\ UNCHANGED obs
    \/ \E tok \in TokenInputs, item_id \in ItemIds, data \in FitnessBodies :
          /\ update_fitness_item(tok, item_id, data)
          /\ created' = IF Touched(item_id) THEN NoRow ELSE created
          /\ UNCHANGED answers
    \/ \E tok \in TokenInputs, item_id \in ItemIds :
          /\ delete_fitness_item(tok, item_id)
          /\ created' = IF Touched(item_id) THEN NoRow ELSE created
          /\ UNCHANGED answers
    \/ /\ clean
       /\ created' = IF created # NoRow /\ created.item.id \notin {i.id : i \in items'}
                     THEN NoRow ELSE created
       /\ UNCHANGED answers
    \/ Deliver /\ UNCHANGED obs

RoundTripSpec == Init /\ [][RoundTripNext]_vars

(***************************** properties **********************************)
\* A step in which a handler returns a response.
Answers == response = NoResp /\ response' # NoResp

\* A step that answers a request in the step the request arrives in (not the
\* commit of a request a worker had pending).
AnswersAtOnce == Answers /\ pending' = pending

ErrorStatuses == {400, 401, 404, 409}
Protected == {"create", "list", "get", "update", "delete"}

ValidRegister(data) ==
    /\ ~Falsy(Get(data, "name"))
    /\ ~Falsy(Get(data, "reg_number"))
    /\ ~Falsy(Get(data, "password"))

RowById(table, id) == CHOOSE r \in table : r.id = id

Range(seq) == {seq[k] : k \in DOMAIN seq}

\* C1: of two /register requests with the same reg_number and non-empty
\* fields, in every interleaving of their lookups and commits, exactly one is
\* answered 201 and the other 409, and exactly one User with that reg_number
\* is stored afterwards.
C1_OneRegistrationWins ==
    \A w1 \in Workers, w2 \in Workers :
        ( /\ w1 # w2
          /\ answers[w1] # NoResp
          /\ answers[w2] # NoResp
          /\ ValidRegister(answers[w1].data)
          /\ ValidRegister(answers[w2].data)
          /\ answers[w1].data.reg_number = answers[w2].data.reg_number )
        => /\ {answers[w1].status, answers[w2].status} = {201, 409}
           /\ answers[w1].status # answers[w2].status
           /\ Cardinality({u \in users :
                             u.reg_number = answers[w1].data.reg_number}) = 1

\* Both requests passed the lookup and the second commit was rolled back (the
\* sequence has advanced twice for one stored row).
C1_Witness ==
    /\ backend = "postgres"
    /\ user_seq = 2
    /\ nreg = 1
    /\ \A w \in Workers : answers[w] # NoResp /\ ValidRegister(answers[w].data)
    /\ answers["w1"].data.reg_number = answers["w2"].data.reg_number
    /\ answers["w1"].status = 409
    /\ answers["w2"].status = 201

C3_TokenResolvesToItsHolder ==
    \A tok \in tokens :
        \/ get_current_user(tok) = NoRow
        \/ get_current_user(tok).serial = tok.holder

\* C4: on every protected route and for every body, a request whose token
\* names a user that is not stored is answered 401, as the request without a
\* token is, and changes nothing in the store.
C4_MissingUserIsUnauthorized ==
    [][ ( /\ AnswersAtOnce
          /\ response'.op \in Protected
          /\ \/ response'.tok = NoToken
             \/ response'.tok \in tokens /\ get_current_user(response'.tok) = NoRow )
        => /\ response'.status = 401
           /\ items' = items
           /\ users' = users ]_vars

\* C5 as claimed: a successful update leaves the description unchanged when the
\* body has no description field, and replaces it by the field's value whenever
\* the field is present, whatever the value.
C5_PresentDescriptionReplaces ==
    [][ ( /\ Answers
          /\ response'.op = "update"
          /\ response'.status = 200 )
        => LET old == RowById(items, response'.id)
               new == RowById(items', response'.id)
               sent == response'.data.description
           IN IF sent = Absent
              THEN new.description = old.description
              ELSE new.description = sent ]_vars

\* C5 as amended: a successful update leaves the description unchanged when
\* the body has no description field or has it as null, and replaces it by the
\* field's value when that is a string, the empty string included.
C5_StringDescriptionReplaces ==
    [][ ( /\ Answers
          /\ response'.op = "update"
          /\ response'.status = 200 )
        => LET old == RowById(items, response'.id)
               new == RowById(items', response'.id)
               sent == response'.data.description
           IN /\ new.id = old.id /\ new.user_id = old.user_id
              /\ IF sent \in {Absent, None}
                 THEN new.description = old.description
                 ELSE new.description = sent
              /\ response'.json.item.description = new.description ]_vars

\* An update with description "" has cleared a description.
C5_Witness ==
    /\ response.op = "update"
    /\ response.status = 200
    /\ response.data.description = ""
    /\ RowById(items, response.id).description = ""

\* C6: every stored FitnessItem's user_id refers to a stored User.
C6_ItemOwnerExists == \A i \in items : \E u \in users : u.id = i.user_id

\* C7: a get of the id a create returned, with the token the create was sent
\* with and no update or delete of the item in between, is answered 200 with
\* the title and description of the create's request and response.
C7_CreateThenGet ==
    [][ ( /\ Answers
          /\ created # NoRow
          /\ response'.op = "get"
          /\ response'.tok = created.tok
          /\ response'.id = created.item.id )
        => /\ response'.status = 200
           /\ response'.json.item.title = created.item.title
           /\ response'.json.item.description = created.item.description
           /\ response'.json.item.title = created.data.title
           /\ response'.json.item.description =
                 Get(created.data, "description") ]_vars

\* C8: /login with non-empty fields is answered 200 with a token exactly when
\* a stored user has the reg_number and was registered with the password;
\* otherwise 401 with one response for both causes; a missing or empty field
\* is answered 400.
C8_LoginOutcome ==
    [][ ( Answers /\ response'.op = "login" )
        => LET reg_number == Get(response'.data, "reg_number")
               password == Get(response'.data, "password")
               matching == {u \in users :
                              /\ u.reg_number = reg_number
                              /\ u.password_hash = generate_password_hash(password)}
           IN IF Falsy(reg_number) \/ Falsy(password)
              THEN response'.status = 400 /\ tokens' = tokens
              ELSE IF matching # {}
              THEN /\ response'.status = 200
                   /\ response'.json.access_token \in tokens'
                   /\ \E u \in matching :
                         /\ get_current_user(response'.json.access_token) = u
                         /\ response'.json.user = UserToDict(u)
              ELSE /\ response'.status = 401
                   /\ response'.json = Msg("invalid credentials")
                   /\ tokens' = tokens ]_vars

\* A wrong password for a stored user was answered 401.
C8_Witness ==
    /\ response.op = "login"
    /\ response.status = 401
    /\ UserByReg(response.data.reg_number) # NoRow
    /\ response.data.password \in WrongPasswords

\* C9: GET /fitness with a token of a stored user U is answered 200 with
\* exactly the stored items whose user_id is U's id, each once and as stored.
C9_ListIsOwnItems ==
    [][ ( /\ Answers
          /\ response'.op = "list"
          /\ response'.tok \in tokens
          /\ get_current_user(response'.tok) # NoRow )
        => LET U == get_current_user(response'.tok)
               own == {i \in items : i.user_id = U.id}
               listed == response'.json.items
           IN /\ response'.status = 200
              /\ Range(listed) = {ItemToDict(i) : i \in own}
              /\ Len(listed) = Cardinality(own)
              /\ \A k \in DOMAIN listed : listed[k].user_id = U.id
              /\ items' = items ]_vars

\* A list that returned the user's item while another user's item is stored.
C9_Witness ==
    /\ response.op = "list"
    /\ response.status = 200
    /\ Len(response.json.items) = 1
    /\ \E i \in items :
          /\ i.user_id # response.json.items[1].user_id
          /\ UserById(i.user_id) # NoRow

\* C10: a step that answers 400, 401, 404 or 409, and a step that only takes
\* a request up to its commit, leave users and items as they are.
C10_ErrorsChangeNothing ==
    [][ ( \/ Answers /\ response'.status \in ErrorStatuses
          \/ \E w \in Workers : pending[w] = Idle /\ pending'[w] # Idle )
        => users' = users /\ items' = items ]_vars

\* A /register that lost the race at commit: answered 409 after the sequence
\* had advanced for its insert.
C10_Witness ==
    /\ response.op = "register"
    /\ response.status = 409
    /\ backend = "postgres"
    /\ user_seq = 2
    /\ nreg = 1
    /\ Cardinality(users) = 1

====
